---- MODULE Spec2Model ----
(***************************************************************************)
(* Model of the Gmail IMAP credentials checker (package gmail_checker):    *)
(* GradioInterface.process_credentials, the CredentialParser, the          *)
(* AuthManager with its two authenticators, the IMAPConnector and the      *)
(* credential / result models.                                             *)
(*                                                                         *)
(* Text is modelled as a sequence of tokens.  A token is either one of the *)
(* single special characters " ", ":", "@", "-", "." or a run of           *)
(* alphanumeric characters; the length of a text in characters is the sum  *)
(* of the lengths of its tokens.  A multi-line text is the sequence of its *)
(* lines (the result of split('\n')).  Messages that are only ever built   *)
(* by concatenation are TLA+ strings.                                      *)
(***************************************************************************)
EXTENDS Integers, Sequences, FiniteSets, TLC

VARIABLES
    mode,               \* "ui": process_credentials is called; "api": authenticate_and_count is called directly;
                        \* "twice": authenticate_and_count is called twice on the same record
    app_password_text,  \* argument of process_credentials: the lines of the text box
    oauth2_files,       \* argument of process_credentials: the uploaded files' contents
    pc,                 \* position of the (single) worker in process_credentials / authenticate_and_count
    all_credentials,    \* process_credentials: all_credentials, a sequence of CredentialModel
    results,            \* process_credentials: results, a sequence of ResultModel
    i,                  \* process_credentials: index (1-based) of the credential being processed
    att,                \* what the current (or, between attempts, the last) attempt did
    returned,           \* what the called entry point returned (or "none" while it runs)
    stub,               \* the servers and the user: free, or fixed to one answer per call
    colab_credentials,  \* smtp_checker.py: global colab_credentials (0 is None, n the n-th credentials obtained)
    gmail_service,      \* smtp_checker.py: global gmail_service (0 is None, n a service built from credentials n)
    colab_calls,        \* smtp_checker.py: the calls made so far and what get_gmail_service last returned
    files,              \* file_handler.py: the content of each file of temp_dir
    runs                \* gradio_interface.py: the calls of process_credentials that are generating their outputs

\* the state outside the validation of a batch
others == <<colab_credentials, gmail_service, colab_calls, files, runs>>

vars == <<mode, app_password_text, oauth2_files, pc, all_credentials, results, i, att, returned, stub, others>>

-----------------------------------------------------------------------------
(* Bounds of the model *)

\* largest number of entries (text lines plus uploaded files) in one batch
MaxBatch == 2

\* largest number of lines of a text given to parse_app_password_text alone
MaxLines == 3

\* largest number of calls of authenticate_colab_user and get_gmail_service
MaxColabCalls == 6

-----------------------------------------------------------------------------
(* Text helpers (Python str operations on token sequences) *)

NonAlnumTokens == {" ", ":", "@", "-", "."}

\* 'c in text'
Contains(t, c) == \E k \in 1..Len(t) : t[k] = c

\* str.strip(): drop leading and trailing blanks
RECURSIVE LStrip(_)
LStrip(t) == IF t # <<>> /\ Head(t) = " " THEN LStrip(Tail(t)) ELSE t

RECURSIVE RStrip(_)
RStrip(t) == IF t # <<>> /\ t[Len(t)] = " " THEN RStrip(SubSeq(t, 1, Len(t) - 1)) ELSE t

Strip(t) == RStrip(LStrip(t))

\* position of the first occurrence of c in t (0 when absent)
RECURSIVE Find(_, _, _)
Find(t, c, k) == IF k > Len(t) THEN 0 ELSE IF t[k] = c THEN k ELSE Find(t, c, k + 1)

\* mutant: str.split(c), with no limit on the number of splits
SplitFirst_all(t, c) ==
    LET k == Find(t, c, 1)
        rest == SubSeq(t, k + 1, Len(t))
        k2 == Find(rest, c, 1)
    IN  IF k = 0 THEN <<t>>
        ELSE IF k2 = 0 THEN <<SubSeq(t, 1, k - 1), rest>>
        ELSE <<SubSeq(t, 1, k - 1), SubSeq(rest, 1, k2 - 1), SubSeq(rest, k2 + 1, Len(rest))>>

\* str.split(c, 1)
SplitFirst(t, c) ==
    LET k == Find(t, c, 1)
    IN  IF k = 0 THEN <<t>> ELSE <<SubSeq(t, 1, k - 1), SubSeq(t, k + 1, Len(t))>>

\* len(text), in characters
RECURSIVE CharLen(_)
CharLen(t) == IF t = <<>> THEN 0 ELSE Len(Head(t)) + CharLen(Tail(t))

\* str.replace(' ', '')
RemoveSpaces(t) == SelectSeq(t, LAMBDA x : x # " ")

\* str.isalnum(): non-empty and every character alphanumeric
IsAlnum(t) == t # <<>> /\ \A k \in 1..Len(t) : t[k] \notin NonAlnumTokens

UnknownGmail == <<"unknown", "@", "gmail", ".", "com">>
Unknown == <<"unknown">>
NoEmail == <<>>

-----------------------------------------------------------------------------
(* models/credential_model.py *)

APP_PASSWORD == "app_password"
OAUTH2 == "oauth2"

\* auth_data of an app password credential: the password string
StrData(password) == [type |-> "str", value |-> password]

\* auth_data of an OAuth2 credential: the client secret JSON object.
\* installed: "absent" (no 'installed' key), "dict" (an object with the keys
\* `fields`) or "list" (a JSON array holding the strings `fields`)
DictData(installed, fields) == [type |-> "dict", installed |-> installed, fields |-> fields]

EmptyDict == DictData("absent", {})

CredentialModel(auth_type, email, auth_data) ==
    [auth_type |-> auth_type, email |-> email, auth_data |-> auth_data,
     status |-> "pending", error_message |-> "None"]

from_app_password(email, password) == CredentialModel(APP_PASSWORD, email, StrData(password))

from_oauth2_data(client_secret_data) == CredentialModel(OAUTH2, NoEmail, client_secret_data)

is_app_password(c) == c.auth_type = APP_PASSWORD

\* mutant: a record that is no longer pending is not taken for an OAuth2 record
is_oauth2_pending(c) == c.auth_type = OAUTH2 /\ c.status = "pending"

is_oauth2(c) == c.auth_type = OAUTH2

\* mutant: the email is not taken over
set_authenticated_status_only(c, email) ==
    [c EXCEPT !.status = "authenticated"]

set_authenticated(c, email) ==
    [c EXCEPT !.status = "authenticated",
              !.email = IF email # NoEmail THEN email ELSE c.email]

set_failed(c, error_message) ==
    [c EXCEPT !.status = "failed", !.error_message = error_message]

\* get_display_id raises AttributeError when auth_data['installed'] is not a
\* dict: client_config.get(...) is called on it
get_display_id_raises(c) ==
    /\ ~is_app_password(c)
    /\ is_oauth2(c)
    /\ c.auth_data.type = "dict"
    /\ c.auth_data.installed = "list"

\* credential.auth_type.value raises AttributeError when auth_type is not an Enum member
auth_type_value_raises(c) == c.auth_type = "none"

-----------------------------------------------------------------------------
(* models/result_model.py *)

None == "None"

SUCCESS == "success"
FAILED == "failed"

create_success(email, auth_type, inbox_count, sent_count) ==
    [email |-> email, auth_type |-> auth_type, status |-> SUCCESS,
     inbox_count |-> inbox_count, sent_count |-> sent_count, error_message |-> None]

create_failure(email, auth_type, error_message) ==
    [email |-> email, auth_type |-> auth_type, status |-> FAILED,
     inbox_count |-> 0, sent_count |-> 0, error_message |-> error_message]

is_success(r) == r.status = SUCCESS

is_failed(r) == r.status = FAILED

get_total_emails(r) == r.inbox_count + r.sent_count

-----------------------------------------------------------------------------
(* utils/credential_parser.py *)

ParseRaised(error) == [raised |-> TRUE, error |-> error, credentials |-> <<>>]

ParseOk(credentials) == [raised |-> FALSE, error |-> "", credentials |-> credentials]

\* lines = [line.strip() for line in text.strip().split('\n') if line.strip()]
RECURSIVE StrippedLines(_)
StrippedLines(text) ==
    IF text = <<>> THEN <<>>
    ELSE IF Strip(Head(text)) = <<>> THEN StrippedLines(Tail(text))
         ELSE <<Strip(Head(text))>> \o StrippedLines(Tail(text))

\* the for loop of parse_app_password_text: the first malformed line raises ValueError
RECURSIVE ParseLines(_, _, _)
ParseLines(lines, line_num, credentials) ==
    IF lines = <<>> THEN ParseOk(credentials)
    ELSE LET line == Head(lines)
             parts == SplitFirst(line, ":")
             email == Strip(parts[1])
             password == Strip(parts[2])
         IN  IF ~Contains(line, ":")
             THEN ParseRaised("Line " \o ToString(line_num) \o ": Invalid format. Expected 'email:password'")
             ELSE IF Len(parts) # 2
             THEN ParseRaised("Line " \o ToString(line_num) \o ": Invalid format. Expected 'email:password'")
             ELSE IF email = <<>> \/ password = <<>>
             THEN ParseRaised("Line " \o ToString(line_num) \o ": Empty email or password")
             ELSE IF ~Contains(email, "@")
             THEN ParseRaised("Line " \o ToString(line_num) \o ": Invalid email format")
             ELSE ParseLines(Tail(lines), line_num + 1,
                             Append(credentials, from_app_password(email, password)))

parse_app_password_text(text) == ParseLines(StrippedLines(text), 1, <<>>)

RequiredFields == {"client_id", "client_secret", "auth_uri", "token_uri"}

\* a file's content: text that json.loads rejects, or a JSON object `data`
FileContent(valid_json, data) == [valid_json |-> valid_json, data |-> data]

\* 'field in installed' is key membership for a dict and element membership for a list
parse_oauth2_json(json_data) ==
    IF ~json_data.valid_json
    THEN [raised |-> TRUE, error |-> "Invalid JSON format", credential |-> None]
    ELSE IF json_data.data.installed = "absent"
    THEN [raised |-> TRUE, error |-> "Missing 'installed' section in client secret JSON",
          credential |-> None]
    ELSE IF ~(RequiredFields \subseteq json_data.data.fields)
    THEN [raised |-> TRUE, error |-> "Missing required field", credential |-> None]
    ELSE [raised |-> FALSE, error |-> "", credential |-> from_oauth2_data(json_data.data)]

\* a file that does not parse becomes a failed credential built from {}
RECURSIVE parse_oauth2_files(_)
parse_oauth2_files(file_objects) ==
    IF file_objects = <<>> THEN <<>>
    ELSE LET p == parse_oauth2_json(Head(file_objects))
             credential == IF p.raised
                           THEN set_failed(from_oauth2_data(EmptyDict),
                                           "File parsing error: " \o p.error)
                           ELSE p.credential
         IN  <<credential>> \o parse_oauth2_files(Tail(file_objects))

-----------------------------------------------------------------------------
(* core/app_password_auth.py, core/oauth2_auth.py, core/imap_connector.py:  *)
(* the parts that are functions of their arguments                          *)

AppPasswordLength == 16

validate_app_password_format(password) ==
    /\ password # <<>>
    /\ CharLen(RemoveSpaces(password)) = AppPasswordLength
    /\ IsAlnum(RemoveSpaces(password))

\* texts of the imaplib.IMAP4.error a login can raise
ImapErrInvalid == "[AUTHENTICATIONFAILED] Invalid credentials (Failure)"
ImapErrAuthFailed == "Authentication Failed"
ImapErrOther == "LOGIN command error: BAD"
ImapErrors == {ImapErrInvalid, ImapErrAuthFailed, ImapErrOther}

\* "Invalid credentials" in error_msg
HasInvalidCredentials(error_msg) == error_msg = ImapErrInvalid

\* "authentication failed" in error_msg.lower()
HasAuthenticationFailed(error_msg) == error_msg = ImapErrAuthFailed

\* mutant: the text of the IMAP4.error is handed back as it is
ClassifyImapError_raw(error_msg) == error_msg

\* the except imaplib.IMAP4.error branch of AppPasswordAuthenticator.authenticate
ClassifyImapError(error_msg) ==
    IF HasInvalidCredentials(error_msg)
    THEN "Invalid credentials. Check email and app password."
    ELSE IF HasAuthenticationFailed(error_msg)
    THEN "Authentication failed. Verify app password."
    ELSE "IMAP authentication error: " \o error_msg

validate_client_secret(client_secret_data) ==
    /\ client_secret_data.installed # "absent"
    /\ RequiredFields \subseteq client_secret_data.fields

\* InstalledAppFlow.from_client_config (google_auth_oauthlib): raises ValueError
\* unless the config has an 'installed' (or 'web') object holding client_id,
\* auth_uri and token_uri; it does not ask for client_secret
FlowRequiredKeys == {"client_id", "auth_uri", "token_uri"}

from_client_config_error(client_config) ==
    IF client_config.installed = "absent"
    THEN "Client secrets must be for a web or installed app."
    ELSE IF client_config.installed = "list"
    THEN "'list' object has no attribute 'keys'"
    ELSE IF ~(FlowRequiredKeys \subseteq client_config.fields)
    THEN "Client secrets is not in the correct format."
    ELSE ""

\* what imap_conn.select(folder, readonly=True) does: raises, or returns
\* (status, [count]) where the count may not be a number
SelectReply(kind, count) == [kind |-> kind, count |-> count]

\* mutant: the length of the reply list is returned instead of the count in it
get_folder_count_len(reply) ==
    IF reply.kind = "raise" THEN 0
    ELSE IF reply.kind = "ok" THEN 1
    ELSE IF reply.kind = "ok_unparsable" THEN 0
    ELSE 0

\* mutant: an exception during the select is reported as -1 instead of 0
get_folder_count_neg(reply) ==
    IF reply.kind = "raise" THEN -1
    ELSE IF reply.kind = "ok" THEN reply.count
    ELSE IF reply.kind = "ok_unparsable" THEN 0
    ELSE 0

get_folder_count(reply) ==
    IF reply.kind = "raise" THEN 0
    ELSE IF reply.kind = "ok" THEN reply.count
    ELSE IF reply.kind = "ok_unparsable" THEN 0
    ELSE 0

-----------------------------------------------------------------------------
(* Inputs: the entries a caller can hand in, and what the outside world     *)
(* (mail server, token issuer, people API) can answer                       *)

AliceEmail == <<"alice", "@", "gmail", ".", "com">>
BobEmail == <<"bob", "@", "gmail", ".", "com">>

\* a 16 character alphanumeric app password, and one of 11 characters
GoodSecret == <<"abcdefghijklmnop">>
ShortSecret == <<"testpass123">>

LineGood == AliceEmail \o <<":">> \o GoodSecret
LineShort == <<" ">> \o AliceEmail \o <<":", " ">> \o ShortSecret
LineNoColon == AliceEmail
LineNoAt == <<"dave", ":">> \o GoodSecret
LineBlank == <<" ">>

AppLines == {LineGood, LineShort, LineNoColon, LineNoAt, LineBlank}

FileGood == FileContent(TRUE, DictData("dict", RequiredFields))
FileNoSecret == FileContent(TRUE, DictData("dict", RequiredFields \ {"client_secret"}))
FileList == FileContent(TRUE, DictData("list", RequiredFields))
FileNotJson == FileContent(FALSE, EmptyDict)

Files == {FileGood, FileNoSecret, FileList, FileNotJson}

\* records a caller of AuthManager.authenticate_and_count can construct
ApiRecords ==
    {from_app_password(AliceEmail, GoodSecret),
     from_app_password(AliceEmail, ShortSecret),
     from_app_password(AliceEmail, <<"abcd", "-", "efgh", "-", "ijkl", "-", "mn">>),
     from_oauth2_data(DictData("dict", RequiredFields)),
     from_oauth2_data(DictData("dict", RequiredFields \ {"client_secret"})),
     from_oauth2_data(DictData("dict", RequiredFields \ {"client_id"})),
     from_oauth2_data(DictData("list", RequiredFields)),
     from_oauth2_data(EmptyDict),
     CredentialModel("other_enum", AliceEmail, StrData(GoodSecret)),
     CredentialModel("none", AliceEmail, StrData(GoodSecret))}

SeqsUpTo(S, n) == UNION {[1..k -> S] : k \in 0..n}

Counts == {0, 450, 1250}

SelectReplies ==
    {SelectReply("ok", n) : n \in Counts}
        \cup {SelectReply("ok_unparsable", 0), SelectReply("no", 0), SelectReply("raise", 0)}

\* what the servers and the user can answer to each call the program makes
ConnectOutcomes == {"ok", "oserror", ImapErrOther}
LoginOutcomes == {"ok", "oserror"} \cup ImapErrors
ExchangeOutcomes == {"ok", "raise"}
LookupOutcomes == {"found", "empty", "raise"}
RefreshErrors == {"invalid_grant", "timed out"}
RefreshOutcomes == {"not_expired", "refreshed"} \cup RefreshErrors
OAuthConnectOutcomes == {"ok", "oserror"}
Xoauth2Outcomes == {"ok", ImapErrInvalid}
LogoutOutcomes == {"ok", "raise"}

\* a stub of the servers and the user: one answer per call; when fixed is
\* FALSE the answers are not used and every call may be answered in any way
Stub(fixed, connect, login, exchange, lookup, refresh, oauth_connect, xoauth2, inbox, sent, logout) ==
    [fixed |-> fixed, connect |-> connect, login |-> login, exchange |-> exchange,
     lookup |-> lookup, refresh |-> refresh, oauth_connect |-> oauth_connect,
     xoauth2 |-> xoauth2, inbox |-> inbox, sent |-> sent, logout |-> logout]

OkReply == SelectReply("ok", 450)

FreeStub ==
    Stub(FALSE, "ok", "ok", "ok", "found", "not_expired", "ok", "ok", OkReply, OkReply, "ok")

StubReplies == {OkReply, SelectReply("no", 0), SelectReply("raise", 0)}

\* the deterministic stubs a record of each kind can be validated against
Stubs(c) ==
    IF is_app_password(c)
    THEN {Stub(TRUE, co, lo, "ok", "found", "not_expired", "ok", "ok", inb, snt, out) :
              co \in ConnectOutcomes, lo \in LoginOutcomes,
              inb \in StubReplies, snt \in StubReplies, out \in LogoutOutcomes}
    ELSE IF is_oauth2(c) /\ ~get_display_id_raises(c) /\ from_client_config_error(c.auth_data) = ""
    THEN {Stub(TRUE, "ok", "ok", ex, lk, rf, co, xo, inb, snt, out) :
              ex \in ExchangeOutcomes, lk \in LookupOutcomes, rf \in RefreshOutcomes,
              co \in OAuthConnectOutcomes, xo \in Xoauth2Outcomes,
              inb \in StubReplies, snt \in StubReplies, out \in LogoutOutcomes}
    ELSE {[FreeStub EXCEPT !.fixed = TRUE]}

\* the answers a call can get: the stub's one answer, or any of them
Pick(outcomes, answer) == IF stub.fixed THEN {answer} ELSE outcomes

-----------------------------------------------------------------------------
(* State *)

AttIdle ==
    [idx |-> 0,            \* index of the credential the attempt is for
     ended |-> "none",     \* "running", "returned" or "raised"
     connects |-> 0,       \* imaplib.IMAP4_SSL(...) calls
     logins |-> 0,         \* imap_conn.login / imap_conn.authenticate calls
     open |-> 0,           \* connections established and not logged out
     exchanges |-> 0,      \* flow.run_local_server calls
     lookups |-> 0,        \* people API calls
     refreshes |-> 0,      \* credentials.refresh calls
     selects |-> <<>>,     \* imap_conn.select calls: folder, readonly flag, reply
     logouts |-> 0,        \* imap_conn.logout calls
     logout |-> "none",    \* what imap_conn.logout did: "ok" or "raise"
     auth |-> "none",      \* what the authenticator returned: "ok" or "fail"
     session |-> "none",   \* what opening the session returned: "ok" or "fail"
     lookup |-> "none",    \* what the profile lookup did: "found", "empty", "raise"
     inbox |-> 0,          \* counts['inbox']
     sent |-> 0]           \* counts['sent']

NoReturn == [kind |-> "none", message |-> "", results |-> <<>>]

\* smtp_checker.py at import: colab_credentials = None, gmail_service = None
NoCredentials == 0
NoService == 0
NoColabCalls == [auths |-> 0, gets |-> 0, service |-> NoService]

\* file_handler.py: the two files export writes, in temp_dir
CsvPath == "/tmp/gmail_check_results.csv"
SummaryPath == "/tmp/gmail_check_summary.txt"
NoFile == <<>>
NoFiles == [path \in {CsvPath, SummaryPath} |-> NoFile]

\* no call of process_credentials is generating outputs
NoRuns == <<>>

OthersIdle ==
    /\ colab_credentials = NoCredentials
    /\ gmail_service = NoService
    /\ colab_calls = NoColabCalls
    /\ files = NoFiles
    /\ runs = NoRuns

Init ==
    /\ mode \in {"ui", "api"}
    /\ IF mode = "ui"
       THEN /\ app_password_text \in SeqsUpTo(AppLines, MaxBatch)
            /\ oauth2_files \in SeqsUpTo(Files, MaxBatch)
            /\ Len(app_password_text) + Len(oauth2_files) <= MaxBatch
            /\ all_credentials = <<>>
            /\ pc = "start"
       ELSE /\ app_password_text = <<>>
            /\ oauth2_files = <<>>
            /\ all_credentials \in {<<c>> : c \in ApiRecords}
            /\ pc = "api"
    /\ results = <<>>
    /\ i = 1
    /\ att = AttIdle
    /\ returned = NoReturn
    /\ stub = FreeStub
    /\ OthersIdle

credential == all_credentials[i]

-----------------------------------------------------------------------------
(* ui/gradio_interface.py: process_credentials, up to the batch loop *)

ProcessFailed(error) ==
    [kind |-> "failed", message |-> "Processing failed: " \o error, results |-> <<>>]

ProcessCredentials ==
    /\ pc = "start"
    /\ LET has_text == StrippedLines(app_password_text) # <<>>
           app == IF has_text THEN parse_app_password_text(app_password_text) ELSE ParseOk(<<>>)
           oauth2_creds == IF oauth2_files # <<>> THEN parse_oauth2_files(oauth2_files) ELSE <<>>
           creds == app.credentials \o oauth2_creds
       IN  IF app.raised
           THEN /\ returned' = ProcessFailed(app.error)
                /\ pc' = "done"
                /\ UNCHANGED all_credentials
           ELSE IF creds = <<>>
           THEN /\ returned' = [kind |-> "no_valid", message |-> "No valid credentials provided",
                                results |-> <<>>]
                /\ pc' = "done"
                /\ UNCHANGED all_credentials
           ELSE /\ all_credentials' = creds
                /\ pc' = "loop"
                /\ UNCHANGED returned
    /\ UNCHANGED <<mode, app_password_text, oauth2_files, results, i, att, stub, others>>

-----------------------------------------------------------------------------
(* core/auth_manager.py: how an attempt ends *)

\* authenticate_and_count returns result r; a is what the attempt did
Return(r, a) ==
    /\ results' = Append(results, r)
    /\ att' = [a EXCEPT !.ended = "returned"]
    /\ IF mode = "ui"
       THEN /\ pc' = "loop"
            /\ i' = i + 1
            /\ UNCHANGED returned
       ELSE IF mode = "twice" /\ results = <<>>
       THEN /\ pc' = "api"
            /\ UNCHANGED <<i, returned>>
       ELSE /\ pc' = "done"
            /\ UNCHANGED i
            /\ returned' = [kind |-> "returned", message |-> "", results |-> <<r>>]

\* an exception leaves authenticate_and_count (or the loop body): in
\* process_credentials the except clause returns the error with no results
Raise(error, a) ==
    /\ att' = [a EXCEPT !.ended = "raised"]
    /\ pc' = "done"
    /\ UNCHANGED <<results, i>>
    /\ returned' = IF mode = "ui" THEN ProcessFailed(error)
                   ELSE [kind |-> "raised", message |-> error, results |-> <<>>]

\* lines 43-64 of authenticate_and_count: the log call before the try, then the
\* dispatch.  The except clause of lines 66-76 has no step of its own: both
\* authenticators, get_folder_count and close_connection catch every Exception
\* themselves, so nothing raised by a step below reaches it.
Dispatch(a) ==
    IF get_display_id_raises(credential)
    THEN Raise("'list' object has no attribute 'get'", a)
    ELSE IF auth_type_value_raises(credential)
    THEN Raise("'NoneType' object has no attribute 'value'", a)
    ELSE IF is_app_password(credential)
    THEN /\ pc' = "app_connect"
         /\ att' = a
         /\ UNCHANGED <<results, i, returned>>
    ELSE IF is_oauth2(credential)
    THEN /\ pc' = "oauth_flow"
         /\ att' = a
         /\ UNCHANGED <<results, i, returned>>
    ELSE Return(create_failure(credential.email, "unknown", "Unsupported authentication type"), a)

\* the body of the for loop: the progress message calls get_display_id, then
\* authenticate_and_count is called
BeginCredential ==
    /\ pc = "loop"
    /\ i <= Len(all_credentials)
    /\ LET a == [AttIdle EXCEPT !.idx = i, !.ended = "running"]
       IN  IF get_display_id_raises(credential)
           THEN Raise("'list' object has no attribute 'get'", a)
           ELSE Dispatch(a)
    /\ UNCHANGED <<mode, app_password_text, oauth2_files, all_credentials, stub, others>>

\* a direct call of AuthManager.authenticate_and_count
ApiCall ==
    /\ pc = "api"
    /\ Dispatch([AttIdle EXCEPT !.idx = i, !.ended = "running"])
    /\ UNCHANGED <<mode, app_password_text, oauth2_files, all_credentials, stub, others>>

\* after the loop: the outputs are generated from results
GenerateOutputs ==
    /\ pc = "loop"
    /\ i > Len(all_credentials)
    /\ returned' = [kind |-> "complete",
                    message |-> "Processing complete! " \o ToString(Len(results))
                                    \o " credentials processed.",
                    results |-> results]
    /\ pc' = "done"
    /\ UNCHANGED <<mode, app_password_text, oauth2_files, all_credentials, results, i, att, stub, others>>

-----------------------------------------------------------------------------
(* core/app_password_auth.py: AppPasswordAuthenticator.authenticate, called *)
(* from AuthManager._process_app_password                                   *)

Frame == UNCHANGED <<mode, app_password_text, oauth2_files, all_credentials, stub, others>>

Stay(next_pc, a) ==
    /\ pc' = next_pc
    /\ att' = a
    /\ UNCHANGED <<results, i, returned>>

\* imap_conn = imaplib.IMAP4_SSL(server, port): the connection is made, or an
\* OSError is caught by 'except Exception', or the server's greeting is
\* refused with an imaplib.IMAP4.error
AppConnect ==
    /\ pc = "app_connect"
    /\ \E outcome \in Pick(ConnectOutcomes, stub.connect) :
          LET a == [att EXCEPT !.connects = @ + 1]
              error_msg == IF outcome = "oserror" THEN "Connection error: " \o "timed out"
                           ELSE ClassifyImapError(outcome)
          IN  IF outcome = "ok"
              THEN Stay("app_login", [a EXCEPT !.open = @ + 1])
              ELSE Return(create_failure(credential.email, "app_password", error_msg),
                          [a EXCEPT !.auth = "fail"])
    /\ Frame

\* mutant: the 'if not success' check is missing
AfterAuthenticate_nocheck(success) == "probe_inbox"

\* where _process_app_password goes once authenticate has returned
AfterAuthenticate(success) == IF success THEN "probe_inbox" ELSE "return_failure"

\* imap_conn.login(email, password): accepted, rejected with IMAP4.error, or
\* broken off with an OSError; then _process_app_password looks at success
AppLogin ==
    /\ pc = "app_login"
    /\ \E outcome \in Pick(LoginOutcomes, stub.login) :
          LET success == outcome = "ok"
              error_msg == IF outcome = "ok" THEN ""
                           ELSE IF outcome = "oserror" THEN "Connection error: " \o "connection reset"
                           ELSE ClassifyImapError(outcome)
              a == [att EXCEPT !.logins = @ + 1,
                               !.auth = IF success THEN "ok" ELSE "fail",
                               !.session = IF success THEN "ok" ELSE "fail"]
          IN  IF AfterAuthenticate(success) = "probe_inbox"
              THEN Stay("probe_inbox", a)
              ELSE Return(create_failure(credential.email, "app_password", error_msg), a)
    /\ Frame

-----------------------------------------------------------------------------
(* core/oauth2_auth.py: OAuth2Authenticator.authenticate and                *)
(* create_imap_connection, called from AuthManager._process_oauth2          *)

\* credential.email or "unknown"
EmailOrUnknown(c) == IF c.email # NoEmail THEN c.email ELSE Unknown

OAuth2Failed(error_msg, a) ==
    Return(create_failure(EmailOrUnknown(credential), "oauth2",
                          "OAuth2 authentication failed: " \o error_msg),
           [a EXCEPT !.auth = "fail"])

ImapOAuth2Failed(error_msg, a) ==
    Return(create_failure(credential.email, "oauth2",
                          "IMAP OAuth2 connection failed: " \o error_msg),
           [a EXCEPT !.session = "fail"])

\* flow = InstalledAppFlow.from_client_config(credential.auth_data, SCOPES)
OAuthFlow ==
    /\ pc = "oauth_flow"
    /\ LET error_msg == from_client_config_error(credential.auth_data)
       IN  IF error_msg # ""
           THEN OAuth2Failed(error_msg, att)
           ELSE Stay("oauth_exchange", att)
    /\ Frame

\* mutant: _process_oauth2 goes on to create_imap_connection without looking
\* at the success flag of authenticate
OAuthExchange_nocheck ==
    /\ pc = "oauth_exchange"
    /\ \E outcome \in Pick(ExchangeOutcomes, stub.exchange) :
          LET a == [att EXCEPT !.exchanges = @ + 1]
          IN  IF outcome = "ok"
              THEN Stay("oauth_email", a)
              ELSE Stay("oauth_refresh", [a EXCEPT !.auth = "fail"])
    /\ Frame

\* creds = flow.run_local_server(...): the interactive authorization exchange
OAuthExchange ==
    /\ pc = "oauth_exchange"
    /\ \E outcome \in Pick(ExchangeOutcomes, stub.exchange) :
          LET a == [att EXCEPT !.exchanges = @ + 1]
          IN  IF outcome = "ok"
              THEN Stay("oauth_email", a)
              ELSE OAuth2Failed("access_denied", a)
    /\ Frame

\* mutant: no address is reported when the lookup fails
get_user_email_empty(lookup) == IF lookup = "found" THEN BobEmail ELSE NoEmail

\* _get_user_email: the first address of the profile, or "unknown@gmail.com"
\* when the profile has none or the lookup raises
get_user_email(lookup) == IF lookup = "found" THEN BobEmail ELSE UnknownGmail

\* user_email = self._get_user_email(creds); credential.set_authenticated(user_email);
\* authenticate returns (True, creds, "")
OAuthEmail ==
    /\ pc = "oauth_email"
    /\ \E lookup \in Pick(LookupOutcomes, stub.lookup) :
          /\ all_credentials' =
                 [all_credentials EXCEPT ![i] = set_authenticated(@, get_user_email(lookup))]
          /\ Stay("oauth_refresh",
                  [att EXCEPT !.lookups = @ + 1, !.lookup = lookup, !.auth = "ok"])
    /\ UNCHANGED <<mode, app_password_text, oauth2_files, stub, others>>

\* create_imap_connection: if credentials.expired: credentials.refresh(Request())
OAuthRefresh ==
    /\ pc = "oauth_refresh"
    /\ \E outcome \in Pick(RefreshOutcomes, stub.refresh) :
          IF outcome = "not_expired"
          THEN Stay("oauth_connect", att)
          ELSE IF outcome = "refreshed"
          THEN Stay("oauth_connect", [att EXCEPT !.refreshes = @ + 1])
          ELSE ImapOAuth2Failed(outcome, [att EXCEPT !.refreshes = @ + 1])
    /\ Frame

\* imap_conn = imaplib.IMAP4_SSL(IMAP_SERVER, PORT)
OAuthConnect ==
    /\ pc = "oauth_connect"
    /\ \E outcome \in Pick(OAuthConnectOutcomes, stub.oauth_connect) :
          LET a == [att EXCEPT !.connects = @ + 1]
          IN  IF outcome = "ok"
              THEN Stay("oauth_xoauth2", [a EXCEPT !.open = @ + 1])
              ELSE ImapOAuth2Failed("timed out", a)
    /\ Frame

\* imap_conn.authenticate('XOAUTH2', ...)
OAuthXoauth2 ==
    /\ pc = "oauth_xoauth2"
    /\ \E outcome \in Pick(Xoauth2Outcomes, stub.xoauth2) :
          LET a == [att EXCEPT !.logins = @ + 1]
          IN  IF outcome = "ok"
              THEN Stay("probe_inbox", [a EXCEPT !.session = "ok"])
              ELSE ImapOAuth2Failed(outcome, a)
    /\ Frame

-----------------------------------------------------------------------------
(* core/imap_connector.py: get_all_folder_counts and close_connection, and  *)
(* the end of _process_app_password / _process_oauth2                       *)

INBOX_FOLDER == "INBOX"
SENT_FOLDER == "\"[Gmail]/Sent Mail\""

Select(folder, reply) == [folder |-> folder, readonly |-> TRUE, reply |-> reply]

\* mutant: an exception of imap_conn.select leaves get_folder_count
ProbeInbox_propagates ==
    /\ pc = "probe_inbox"
    /\ \E reply \in Pick(SelectReplies, stub.inbox) :
          LET a == [att EXCEPT !.selects = Append(@, Select(INBOX_FOLDER, reply)),
                               !.inbox = get_folder_count(reply)]
          IN  IF reply.kind = "raise"
              THEN Raise("socket error", a)
              ELSE Stay("probe_sent", a)
    /\ Frame

\* counts['inbox'] = self.get_folder_count(imap_conn, INBOX_FOLDER)
ProbeInbox ==
    /\ pc = "probe_inbox"
    /\ \E reply \in Pick(SelectReplies, stub.inbox) :
          Stay("probe_sent", [att EXCEPT !.selects = Append(@, Select(INBOX_FOLDER, reply)),
                                         !.inbox = get_folder_count(reply)])
    /\ Frame

\* counts['sent'] = self.get_folder_count(imap_conn, SENT_FOLDER)
ProbeSent ==
    /\ pc = "probe_sent"
    /\ \E reply \in Pick(SelectReplies, stub.sent) :
          Stay("close", [att EXCEPT !.selects = Append(@, Select(SENT_FOLDER, reply)),
                                    !.sent = get_folder_count(reply)])
    /\ Frame

\* the auth_type string the two _process methods put in their results
ProcessAuthType(c) == IF is_app_password(c) THEN "app_password" ELSE "oauth2"

\* mutant: an exception of imap_conn.logout leaves close_connection
CloseConnection_propagates ==
    /\ pc = "close"
    /\ \E outcome \in Pick(LogoutOutcomes, stub.logout) :
          LET a == [att EXCEPT !.logouts = @ + 1,
                               !.logout = outcome,
                               !.open = IF outcome = "ok" THEN @ - 1 ELSE @]
          IN  IF outcome = "raise"
              THEN Raise("socket error", a)
              ELSE Return(create_success(credential.email, ProcessAuthType(credential),
                                         att.inbox, att.sent), a)
    /\ Frame

\* close_connection(imap_conn): logout, an exception of which is only logged;
\* then the success result is built from the counts
CloseConnection ==
    /\ pc = "close"
    /\ \E outcome \in Pick(LogoutOutcomes, stub.logout) :
          Return(create_success(credential.email, ProcessAuthType(credential),
                                att.inbox, att.sent),
                 [att EXCEPT !.logouts = @ + 1,
                             !.logout = outcome,
                             !.open = IF outcome = "ok" THEN @ - 1 ELSE @])
    /\ Frame

-----------------------------------------------------------------------------

Next ==
    \/ ProcessCredentials
    \/ BeginCredential
    \/ ApiCall
    \/ GenerateOutputs
    \/ AppConnect
    \/ AppLogin
    \/ OAuthFlow
    \/ OAuthExchange
    \/ OAuthEmail
    \/ OAuthRefresh
    \/ OAuthConnect
    \/ OAuthXoauth2
    \/ ProbeInbox
    \/ ProbeSent
    \/ CloseConnection

Spec == Init /\ [][Next]_vars

-----------------------------------------------------------------------------
(* The steps of the worker itself and of the mail and profile servers, as   *)
(* opposed to the answer of the user in run_local_server: the call is made  *)
(* with no timeout_seconds, so it returns only when the user answers.       *)

LocalSteps ==
    \/ ProcessCredentials
    \/ BeginCredential
    \/ ApiCall
    \/ GenerateOutputs
    \/ AppConnect
    \/ AppLogin
    \/ OAuthFlow
    \/ OAuthEmail
    \/ OAuthRefresh
    \/ OAuthConnect
    \/ OAuthXoauth2
    \/ ProbeInbox
    \/ ProbeSent
    \/ CloseConnection

\* every step but the user's answer is eventually taken
LiveSpec == Init /\ [][Next]_vars /\ WF_vars(LocalSteps)

-----------------------------------------------------------------------------
(* A KeyboardInterrupt (SIGINT) delivered while process_credentials runs:   *)
(* it is a BaseException, so none of the 'except Exception' clauses of the  *)
(* authenticators, of authenticate_and_count or of process_credentials      *)
(* catches it, and it leaves process_credentials.                           *)

Cancel ==
    /\ mode = "ui"
    /\ pc \notin {"start", "done"}
    /\ pc' = "done"
    /\ att' = [att EXCEPT !.ended = IF @ = "running" THEN "interrupted" ELSE @]
    /\ returned' = [kind |-> "interrupted", message |-> "KeyboardInterrupt", results |-> <<>>]
    /\ UNCHANGED <<mode, app_password_text, oauth2_files, all_credentials, results, i, stub, others>>

CancelNext == Next \/ Cancel

CancelSpec == Init /\ [][CancelNext]_vars

-----------------------------------------------------------------------------
(* authenticate_and_count called twice on the same record, the servers and  *)
(* the user being a stub that gives the same answers both times             *)

IdemInit ==
    /\ mode = "twice"
    /\ app_password_text = <<>>
    /\ oauth2_files = <<>>
    /\ all_credentials \in {<<c>> : c \in ApiRecords}
    /\ stub \in Stubs(all_credentials[1])
    /\ pc = "api"
    /\ results = <<>>
    /\ i = 1
    /\ att = AttIdle
    /\ returned = NoReturn
    /\ OthersIdle

IdemNext ==
    \/ ApiCall
    \/ AppConnect
    \/ AppLogin
    \/ OAuthFlow
    \/ OAuthExchange
    \/ OAuthEmail
    \/ OAuthRefresh
    \/ OAuthConnect
    \/ OAuthXoauth2
    \/ ProbeInbox
    \/ ProbeSent
    \/ CloseConnection

IdemSpec == IdemInit /\ [][IdemNext]_vars

-----------------------------------------------------------------------------
(* CredentialParser.parse_app_password_text called on its own *)

LineTwoColons == AliceEmail \o <<":", "ab", ":", "cd">>
LineEmptyPassword == AliceEmail \o <<":", " ">>

TextLines == AppLines \cup {LineTwoColons, LineEmptyPassword}

ParseInit ==
    /\ mode = "parse"
    /\ app_password_text \in SeqsUpTo(TextLines, MaxLines)
    /\ oauth2_files = <<>>
    /\ all_credentials = <<>>
    /\ pc = "parse"
    /\ results = <<>>
    /\ i = 1
    /\ att = AttIdle
    /\ returned = NoReturn
    /\ stub = FreeStub
    /\ OthersIdle

\* app_creds = parser.parse_app_password_text(text): the records, or ValueError
ParseAppPasswordText ==
    /\ pc = "parse"
    /\ LET app == parse_app_password_text(app_password_text)
       IN  IF app.raised
           THEN /\ returned' = [kind |-> "raised", message |-> app.error, results |-> <<>>]
                /\ UNCHANGED all_credentials
           ELSE /\ returned' = [kind |-> "returned", message |-> "", results |-> <<>>]
                /\ all_credentials' = app.credentials
    /\ pc' = "done"
    /\ UNCHANGED <<mode, app_password_text, oauth2_files, results, i, att, stub, others>>

ParseNext == ParseAppPasswordText

ParseSpec == ParseInit /\ [][ParseNext]_vars

-----------------------------------------------------------------------------
(* Folder probing in the three variants of the checker: the package         *)
(* (imap_connector.py), simple_smtp_checker.py (process_account,            *)
(* get_mail_count) and smtp_checker.py (test_app_password), each on a       *)
(* session that has just been logged in                                     *)

LoggedIn ==
    [AttIdle EXCEPT !.idx = 1, !.ended = "running", !.connects = 1, !.logins = 1,
                    !.open = 1, !.auth = "ok", !.session = "ok"]

\* mail.select(folder) then mail.search(None, 'ALL'): the ids found, a select
\* that is refused (search is then illegal and raises), or an exception
SearchReplies == {reply \in SelectReplies : reply.kind # "ok_unparsable"}

\* mail.select(folder): imaplib's readonly parameter is left at its default, False
SelectDefault(folder, reply) == [folder |-> folder, readonly |-> FALSE, reply |-> reply]

VariantInit ==
    /\ mode \in {"api", "simple_smtp_checker", "smtp_checker"}
    /\ app_password_text = <<>>
    /\ oauth2_files = <<>>
    /\ all_credentials = <<from_app_password(AliceEmail, GoodSecret)>>
    /\ results = <<>>
    /\ i = 1
    /\ att = LoggedIn
    /\ pc = (IF mode = "api" THEN "probe_inbox"
             ELSE IF mode = "simple_smtp_checker" THEN "simple_inbox" ELSE "smtp_inbox")
    /\ returned = NoReturn
    /\ stub = FreeStub
    /\ OthersIdle

\* simple_smtp_checker.get_mail_count: len(data[0].split()) when the search
\* result is 'OK', 0 otherwise and on every exception
get_mail_count(reply) == IF reply.kind = "ok" THEN reply.count ELSE 0

\* inbox_count = get_mail_count(mail, INBOX_FOLDER)
SimpleInbox ==
    /\ pc = "simple_inbox"
    /\ \E reply \in SearchReplies :
          Stay("simple_sent", [att EXCEPT !.selects = Append(@, SelectDefault(INBOX_FOLDER, reply)),
                                          !.inbox = get_mail_count(reply)])
    /\ Frame

\* sent_count = get_mail_count(mail, SENT_FOLDER)
SimpleSent ==
    /\ pc = "simple_sent"
    /\ \E reply \in SearchReplies :
          Stay("simple_logout", [att EXCEPT !.selects = Append(@, SelectDefault(SENT_FOLDER, reply)),
                                            !.sent = get_mail_count(reply)])
    /\ Frame

\* what process_account and test_app_password hand back
VariantResult(status, inbox_count, sent_count, error) ==
    [kind |-> "returned", message |-> error,
     results |-> <<[status |-> status, inbox_count |-> inbox_count, sent_count |-> sent_count]>>]

VariantReturn(result, a) ==
    /\ pc' = "done"
    /\ att' = [a EXCEPT !.ended = "returned"]
    /\ returned' = result
    /\ UNCHANGED <<results, i>>

\* process_account: the counts are put in the result, then mail.logout(); an
\* exception of logout makes the status 'Error'
SimpleLogout ==
    /\ pc = "simple_logout"
    /\ \E outcome \in LogoutOutcomes :
          LET a == [att EXCEPT !.logouts = @ + 1, !.logout = outcome,
                               !.open = IF outcome = "ok" THEN @ - 1 ELSE @]
          IN  IF outcome = "ok"
              THEN VariantReturn(VariantResult("Success", att.inbox, att.sent, ""), a)
              ELSE VariantReturn(VariantResult("Error", att.inbox, att.sent,
                                               "An error occurred: " \o "socket error"), a)
    /\ Frame

\* smtp_checker.test_app_password: select and search; any exception ends the
\* function with (False, 0, 0, str(e))
SmtpProbe(folder, next_pc) ==
    \E reply \in SearchReplies :
        LET a == [att EXCEPT !.selects = Append(@, SelectDefault(folder, reply))]
        IN  IF reply.kind = "ok"
            THEN Stay(next_pc, IF folder = INBOX_FOLDER THEN [a EXCEPT !.inbox = reply.count]
                               ELSE [a EXCEPT !.sent = reply.count])
            ELSE VariantReturn(VariantResult("Failed", 0, 0, "command SEARCH illegal in state AUTH"), a)

SmtpInbox ==
    /\ pc = "smtp_inbox"
    /\ SmtpProbe(INBOX_FOLDER, "smtp_sent")
    /\ Frame

SmtpSent ==
    /\ pc = "smtp_sent"
    /\ SmtpProbe(SENT_FOLDER, "smtp_logout")
    /\ Frame

\* mail.logout(); return True, inbox_count, sent_count, ""
SmtpLogout ==
    /\ pc = "smtp_logout"
    /\ \E outcome \in LogoutOutcomes :
          LET a == [att EXCEPT !.logouts = @ + 1, !.logout = outcome,
                               !.open = IF outcome = "ok" THEN @ - 1 ELSE @]
          IN  IF outcome = "ok"
              THEN VariantReturn(VariantResult("Success", att.inbox, att.sent, ""), a)
              ELSE VariantReturn(VariantResult("Failed", 0, 0, "socket error"), a)
    /\ Frame

VariantNext ==
    \/ ProbeInbox
    \/ ProbeSent
    \/ CloseConnection
    \/ SimpleInbox
    \/ SimpleSent
    \/ SimpleLogout
    \/ SmtpInbox
    \/ SmtpSent
    \/ SmtpLogout

VariantSpec == VariantInit /\ [][VariantNext]_vars

-----------------------------------------------------------------------------
(* smtp_checker.py, in Colab: authenticate_colab_user and get_gmail_service *)
(* with the module globals colab_credentials and gmail_service              *)

\* the batch validation of the package is not running
CoreIdle(name) ==
    /\ mode = name
    /\ app_password_text = <<>>
    /\ oauth2_files = <<>>
    /\ pc = "idle"
    /\ all_credentials = <<>>
    /\ results = <<>>
    /\ i = 1
    /\ att = AttIdle
    /\ returned = NoReturn
    /\ stub = FreeStub

CoreUnchanged ==
    UNCHANGED <<mode, app_password_text, oauth2_files, pc, all_credentials, results, i, att,
                returned, stub>>

ColabInit ==
    /\ CoreIdle("smtp_checker")
    /\ OthersIdle

ColabCalls == colab_calls.auths + colab_calls.gets

\* authenticate_colab_user: auth.authenticate_user(); colab_credentials =
\* auth.default()[0], or None when that raises
AuthenticateColabUser ==
    /\ mode = "smtp_checker"
    /\ ColabCalls < MaxColabCalls
    /\ \E outcome \in {"ok", "raise"} :
          colab_credentials' = IF outcome = "ok" THEN colab_calls.auths + 1 ELSE NoCredentials
    /\ colab_calls' = [colab_calls EXCEPT !.auths = @ + 1, !.service = NoService]
    /\ UNCHANGED <<gmail_service, files, runs>>
    /\ CoreUnchanged

\* get_gmail_service: with credentials, the service is built only when
\* gmail_service is None, and gmail_service is returned; None is returned
\* when build raises or when there are no credentials
GetGmailService ==
    /\ mode = "smtp_checker"
    /\ ColabCalls < MaxColabCalls
    /\ IF colab_credentials # NoCredentials
       THEN IF gmail_service = NoService
            THEN \E outcome \in {"ok", "raise"} :
                    /\ gmail_service' = IF outcome = "ok" THEN colab_credentials ELSE NoService
                    /\ colab_calls' = [colab_calls EXCEPT !.gets = @ + 1,
                                                          !.service = gmail_service']
            ELSE /\ UNCHANGED gmail_service
                 /\ colab_calls' = [colab_calls EXCEPT !.gets = @ + 1, !.service = gmail_service]
       ELSE /\ UNCHANGED gmail_service
            /\ colab_calls' = [colab_calls EXCEPT !.gets = @ + 1, !.service = NoService]
    /\ UNCHANGED <<colab_credentials, files, runs>>
    /\ CoreUnchanged

ColabNext ==
    \/ AuthenticateColabUser
    \/ GetGmailService

ColabSpec == ColabInit /\ [][ColabNext]_vars

-----------------------------------------------------------------------------
(* utils/file_handler.py: export_results_to_csv and generate_summary_report, *)
(* called at the end of process_credentials by two calls that overlap        *)

\* ResultModel.to_csv_row (the time columns are left out)
to_csv_row(r) ==
    [Email |-> r.email, AuthType |-> r.auth_type, Status |-> r.status,
     InboxCount |-> r.inbox_count, SentCount |-> r.sent_count,
     TotalEmails |-> get_total_emails(r),
     Error |-> IF r.error_message = None THEN "" ELSE r.error_message]

get_status_emoji(r) == IF is_success(r) THEN "ok" ELSE IF is_failed(r) THEN "x" ELSE "wait"

\* ResultModel.get_summary_text
get_summary_text(r) ==
    IF is_success(r)
    THEN [emoji |-> get_status_emoji(r), email |-> r.email, emails |-> get_total_emails(r),
          error |-> ""]
    ELSE [emoji |-> get_status_emoji(r), email |-> r.email, emails |-> 0,
          error |-> r.error_message]

\* sum(... for r in results if r.is_success())
RECURSIVE SumOver(_)
SumOver(ns) == IF ns = <<>> THEN 0 ELSE Head(ns) + SumOver(Tail(ns))

Successful(rs) == SumOver([k \in 1..Len(rs) |-> IF is_success(rs[k]) THEN 1 ELSE 0])
TotalInbox(rs) == SumOver([k \in 1..Len(rs) |-> IF is_success(rs[k]) THEN rs[k].inbox_count ELSE 0])
TotalSent(rs) == SumOver([k \in 1..Len(rs) |-> IF is_success(rs[k]) THEN rs[k].sent_count ELSE 0])

\* the text export_results_to_csv writes: the header, then one row per result
CsvHeader ==
    [Email |-> "Email", AuthType |-> "Auth Type", Status |-> "Status",
     InboxCount |-> "Inbox Count", SentCount |-> "Sent Count",
     TotalEmails |-> "Total Emails", Error |-> "Error"]

CsvContent(rs) == <<CsvHeader>> \o [k \in 1..Len(rs) |-> to_csv_row(rs[k])]

\* the text generate_summary_report writes: the statistics, then one line
\* per result; the success rate is in tenths of a percent
SummaryContent(rs) ==
    LET total_accounts == Len(rs)
        successful == Successful(rs)
        total_inbox == TotalInbox(rs)
        total_sent == TotalSent(rs)
    IN  <<[total_accounts |-> total_accounts, successful |-> successful,
           failed |-> total_accounts - successful,
           success_rate |-> (successful * 2000 + total_accounts) \div (2 * total_accounts),
           total_inbox |-> total_inbox, total_sent |-> total_sent,
           total |-> total_inbox + total_sent]>>
        \o [k \in 1..Len(rs) |-> get_summary_text(rs[k])]

\* the two calls of process_credentials, and the results lists they may hold
\* when they reach "Generate outputs"
RunIds == {"A", "B"}

ExportBatches ==
    {<<create_success(AliceEmail, APP_PASSWORD, 3, 1)>>,
     <<create_failure(BobEmail, APP_PASSWORD, "Authentication failed: Invalid credentials")>>,
     <<create_success(AliceEmail, APP_PASSWORD, 3, 1),
       create_failure(BobEmail, APP_PASSWORD, "Authentication failed: Invalid credentials")>>}

ExportInit ==
    /\ CoreIdle("process_credentials")
    /\ colab_credentials = NoCredentials
    /\ gmail_service = NoService
    /\ colab_calls = NoColabCalls
    /\ files = NoFiles
    /\ runs \in [RunIds -> {[pc |-> "csv", results |-> rs, csv_path |-> None,
                             summary_path |-> None] : rs \in ExportBatches}]

ExportFrame ==
    /\ UNCHANGED <<colab_credentials, gmail_service, colab_calls>>
    /\ CoreUnchanged

\* export_results_to_csv: the text goes to gmail_check_results.csv of
\* temp_dir and the path is returned, or None when writing raises
ExportResultsToCsv(id) ==
    /\ mode = "process_credentials"
    /\ runs[id].pc = "csv"
    /\ \E outcome \in {"ok", "raise"} :
          IF outcome = "ok"
          THEN /\ files' = [files EXCEPT ![CsvPath] = CsvContent(runs[id].results)]
               /\ runs' = [runs EXCEPT ![id].pc = "summary", ![id].csv_path = CsvPath]
          ELSE /\ UNCHANGED files
               /\ runs' = [runs EXCEPT ![id].pc = "summary", ![id].csv_path = None]
    /\ ExportFrame

\* generate_summary_report: the text goes to gmail_check_summary.txt of
\* temp_dir and the path is returned, or None when writing raises
GenerateSummaryReport(id) ==
    /\ mode = "process_credentials"
    /\ runs[id].pc = "summary"
    /\ \E outcome \in {"ok", "raise"} :
          IF outcome = "ok"
          THEN /\ files' = [files EXCEPT ![SummaryPath] = SummaryContent(runs[id].results)]
               /\ runs' = [runs EXCEPT ![id].pc = "return", ![id].summary_path = SummaryPath]
          ELSE /\ UNCHANGED files
               /\ runs' = [runs EXCEPT ![id].pc = "return", ![id].summary_path = None]
    /\ ExportFrame

\* process_credentials returns the two paths to the interface
ReturnExports(id) ==
    /\ mode = "process_credentials"
    /\ runs[id].pc = "return"
    /\ runs' = [runs EXCEPT ![id].pc = "returned"]
    /\ UNCHANGED files
    /\ ExportFrame

ExportNext ==
    \/ \E id \in RunIds : ExportResultsToCsv(id)
    \/ \E id \in RunIds : GenerateSummaryReport(id)
    \/ \E id \in RunIds : ReturnExports(id)

ExportSpec == ExportInit /\ [][ExportNext]_vars

-----------------------------------------------------------------------------
(* Properties *)

\* the record and the result of the attempt att describes
AttCredential == all_credentials[att.idx]
AttResult == results[att.idx]

Returned == att.ended = "returned"

HasErrorDetail(r) == r.error_message # None /\ r.error_message # ""

NetworkCalls == att.connects + att.logins + att.exchanges + att.lookups + att.refreshes

\* C1: every batch of N records handed to the batch loop of process_credentials
\* ends with exactly N outcome records, the k-th one being that of the k-th record
C1_BatchCardinalityAndOrder ==
    (mode = "ui" /\ pc = "done" /\ all_credentials # <<>>) =>
        /\ Len(returned.results) = Len(all_credentials)
        /\ \A k \in 1..Len(all_credentials) :
              returned.results[k].auth_type = all_credentials[k].auth_type

\* C2: authenticate_and_count returns an outcome record for every credential
\* record; no exception leaves it
C2_ValidateAlwaysReturns ==
    (mode = "api" /\ pc = "done") =>
        /\ returned.kind = "returned"
        /\ Len(returned.results) = 1

\* a text line / an uploaded file that is a well-formed entry
WellFormedLine(line) == Strip(line) # <<>> /\ ~ParseLines(<<Strip(line)>>, 1, <<>>).raised
MalformedLine(line) == Strip(line) # <<>> /\ ParseLines(<<Strip(line)>>, 1, <<>>).raised
WellFormedFile(file) == ~parse_oauth2_json(file).raised

NumWellFormed ==
    Cardinality({k \in 1..Len(app_password_text) : WellFormedLine(app_password_text[k])})
        + Cardinality({k \in 1..Len(oauth2_files) : WellFormedFile(oauth2_files[k])})

HasMalformed ==
    \/ \E k \in 1..Len(app_password_text) : MalformedLine(app_password_text[k])
    \/ \E k \in 1..Len(oauth2_files) : ~WellFormedFile(oauth2_files[k])

\* C3: when the input holds a malformed entry beside well-formed ones, every
\* well-formed entry still gets its outcome record
C3_BadEntryDoesNotAbort ==
    (mode = "ui" /\ pc = "done" /\ HasMalformed /\ NumWellFormed > 0) =>
        Len(returned.results) >= NumWellFormed

\* the attempt was for an app password record, its login succeeded and both
\* folder selects answered OK with a count
SecretSuccessCase ==
    /\ Returned
    /\ is_app_password(AttCredential)
    /\ att.auth = "ok"
    /\ Len(att.selects) = 2
    /\ att.selects[1].reply.kind = "ok"
    /\ att.selects[2].reply.kind = "ok"

\* C4: a SECRET record whose login succeeds and whose session reports I inbox
\* and S sent messages gets a SUCCESS outcome with inbox_count = I,
\* sent_count = S and get_total_emails() = I + S
C4_SecretSuccessCounts ==
    SecretSuccessCase =>
        /\ is_success(AttResult)
        /\ AttResult.inbox_count = att.selects[1].reply.count
        /\ AttResult.sent_count = att.selects[2].reply.count
        /\ get_total_emails(AttResult)
               = att.selects[1].reply.count + att.selects[2].reply.count

C4_Witness ==
    /\ SecretSuccessCase
    /\ att.selects[1].reply.count = 1250
    /\ att.selects[2].reply.count = 450
    /\ get_total_emails(AttResult) = 1700

AuthFailed == att.auth = "fail" \/ att.session = "fail"

\* C5: when authentication or session open fails, the attempt ends with a
\* FAILURE outcome carrying an error, and no folder is ever probed for it
C5_NoProbeAfterAuthFailure ==
    AuthFailed =>
        /\ att.selects = <<>>
        /\ pc \notin {"probe_inbox", "probe_sent", "close"}
        /\ Returned
        /\ is_failed(AttResult)
        /\ HasErrorDetail(AttResult)
        /\ AttResult.inbox_count = 0
        /\ AttResult.sent_count = 0

C5_Witness ==
    /\ Returned
    /\ is_app_password(AttCredential)
    /\ att.logins = 1
    /\ att.auth = "fail"
    /\ AttResult.error_message = "Invalid credentials. Check email and app password."

\* C6: every outcome record has an error exactly when it is a FAILURE and zero
\* counts when it is a FAILURE, and each failed credential ends up as exactly
\* one outcome record of what the run returns
C6_OutcomeRecordInvariant ==
    /\ \A k \in 1..Len(results) :
          /\ HasErrorDetail(results[k]) <=> is_failed(results[k])
          /\ is_failed(results[k]) => results[k].inbox_count = 0 /\ results[k].sent_count = 0
    /\ pc = "done" =>
          /\ att.ended # "raised"
          /\ \A k \in 1..Len(results) :
                is_failed(results[k]) =>
                    /\ k <= Len(returned.results)
                    /\ returned.results[k] = results[k]

\* C7: a SECRET record whose secret fails the format check is rejected
\* without a connection attempt
C7_FormatPreCheck ==
    (att.idx > 0 /\ is_app_password(AttCredential)
        /\ ~validate_app_password_format(AttCredential.auth_data.value)) =>
        att.connects = 0

\* C8: a TOKEN record whose issuer configuration lacks a required field gets a
\* FAILURE outcome without the authorization exchange or any network call
C8_MalformedIssuerConfig ==
    (att.idx > 0 /\ is_oauth2(AttCredential)
        /\ ~validate_client_secret(AttCredential.auth_data)) =>
        /\ att.exchanges = 0
        /\ NetworkCalls = 0
        /\ Returned => is_failed(AttResult)

LookupFailed == att.lookup = "raise"

\* C9 as stated: after a failed profile lookup the address is "unknown"
C9_SentinelUnknown ==
    LookupFailed => AttCredential.email = Unknown

\* C9 amended: after a failed profile lookup authentication still succeeded,
\* the address is "unknown@gmail.com", session open is attempted with it and,
\* when the session opens, both folders are probed
C9_LookupFailureNotFatal ==
    LookupFailed =>
        /\ att.auth = "ok"
        /\ AttCredential.status = "authenticated"
        /\ AttCredential.email = UnknownGmail
        /\ Returned =>
              /\ AttResult.email = UnknownGmail
              /\ att.refreshes + att.connects > 0
              /\ is_failed(AttResult) <=> att.session = "fail"
              /\ att.session = "ok" => Len(att.selects) = 2 /\ is_success(AttResult)

C9_Witness ==
    /\ LookupFailed
    /\ Returned
    /\ att.session = "ok"
    /\ Len(att.selects) = 2
    /\ is_success(AttResult)
    /\ AttResult.email = UnknownGmail

ProbeRaised == \E k \in 1..Len(att.selects) : att.selects[k].reply.kind = "raise"

\* C10 as stated: an exception raised during folder probing gives a FAILURE outcome
C10_ProbeExceptionIsFailure ==
    (Returned /\ ProbeRaised) => is_failed(AttResult) /\ HasErrorDetail(AttResult)

\* C10 amended: an exception raised during folder probing never leaves the
\* attempt; the folder counts as 0 and the outcome is SUCCESS
C10_ProbeExceptionIsZeroCount ==
    ProbeRaised =>
        /\ att.ended # "raised"
        /\ att.selects[1].reply.kind = "raise" => att.inbox = 0
        /\ (Len(att.selects) = 2 /\ att.selects[2].reply.kind = "raise") => att.sent = 0
        /\ Returned =>
              /\ is_success(AttResult)
              /\ AttResult.error_message = None
              /\ AttResult.inbox_count = att.inbox
              /\ AttResult.sent_count = att.sent

C10_Witness ==
    /\ Returned
    /\ Len(att.selects) = 2
    /\ att.selects[1].reply.kind = "raise"
    /\ att.selects[2].reply.kind = "ok"
    /\ att.selects[2].reply.count = 450
    /\ is_success(AttResult)
    /\ AttResult.inbox_count = 0
    /\ AttResult.sent_count = 450

\* the count kept for the k-th probe of the attempt
ProbedCount(k) == IF k = 1 THEN att.inbox ELSE att.sent

\* C11: get_folder_count never raises outward: a select that raises, is
\* refused or answers a count that cannot be parsed gives the count 0; and
\* get_all_folder_counts probes the inbox and then the sent folder on the one
\* session of the attempt, giving a count for both
C11_ProbeNeverRaises ==
    /\ \A k \in 1..Len(att.selects) :
          /\ att.selects[k].folder = (IF k = 1 THEN INBOX_FOLDER ELSE SENT_FOLDER)
          /\ att.selects[k].reply.kind # "ok" => ProbedCount(k) = 0
          /\ att.selects[k].reply.kind = "ok" => ProbedCount(k) = att.selects[k].reply.count
    /\ Len(att.selects) <= 2
    /\ att.selects # <<>> =>
          /\ att.ended # "raised"
          /\ att.connects = 1
          /\ att.session = "ok"
    /\ pc = "probe_sent" => Len(att.selects) = 1
    /\ (pc = "close" \/ (Returned /\ att.session = "ok")) => Len(att.selects) = 2

C11_Witness ==
    /\ Returned
    /\ Len(att.selects) = 2
    /\ att.selects[1].reply.kind = "raise"
    /\ att.selects[2].reply.kind = "no"
    /\ att.inbox = 0
    /\ att.sent = 0

\* C12: an attempt whose authentication gave an open session calls logout
\* exactly once, after both probes and before it returns, whatever the probes
\* gave; an exception of logout is swallowed: the outcome record is still the
\* success record with the probed counts
C12_LogoutExactlyOnce ==
    /\ att.logouts <= 1
    /\ att.logouts = 1 => (att.session = "ok" /\ Len(att.selects) = 2 /\ Returned)
    /\ (att.session = "ok" /\ att.ended # "running") => att.logouts = 1
    /\ att.logout = "raise" =>
          /\ Returned
          /\ is_success(AttResult)
          /\ AttResult.inbox_count = att.inbox
          /\ AttResult.sent_count = att.sent
          /\ AttResult.error_message = None

C12_Witness ==
    /\ Returned
    /\ att.session = "ok"
    /\ att.logouts = 1
    /\ att.logout = "raise"
    /\ Len(att.selects) = 2
    /\ att.selects[2].reply.kind = "raise"
    /\ is_success(AttResult)

\* the connections the attempt established
Established == att.open + (IF att.logout = "ok" THEN 1 ELSE 0)

\* C13: when an attempt has ended, every connection it established has had a
\* close attempt (logout), on whatever path the attempt ended
C13_EveryConnectionClosed ==
    att.ended \in {"returned", "raised"} => att.logouts >= Established

\* C14: every validation attempt that has started eventually finishes (the
\* wait for the user's authorization being bounded by a timeout), so the
\* records after it in the batch get processed
C14_EveryAttemptFinishes == (att.ended = "running") ~> (att.ended # "running")

\* C15: when the batch is interrupted from outside, the outcome records
\* completed so far are kept unchanged in what is handed back, and a record
\* interrupted in the middle of its attempt is reported as a failure with the
\* error "Cancelled"
C15_CancellationKeepsOutcomes ==
    returned.kind = "interrupted" =>
        /\ Len(returned.results) >= Len(results)
        /\ \A k \in 1..Len(results) : returned.results[k] = results[k]
        /\ att.ended = "interrupted" =>
              /\ Len(returned.results) >= att.idx
              /\ is_failed(returned.results[att.idx])
              /\ returned.results[att.idx].error_message = "Cancelled"

\* C16: authenticate_and_count called twice on the same record, against
\* servers and a user that answer the same way both times, gives two outcome
\* records equal in status, inbox_count, sent_count and error_message, although
\* the first call may have changed the record's email and status
C16_ValidateTwiceSameOutcome ==
    (mode = "twice" /\ pc = "done" /\ results # <<>>) =>
        /\ Len(results) = 2
        /\ results[1].status = results[2].status
        /\ results[1].inbox_count = results[2].inbox_count
        /\ results[1].sent_count = results[2].sent_count
        /\ results[1].error_message = results[2].error_message

C16_Witness ==
    /\ mode = "twice"
    /\ pc = "done"
    /\ Len(results) = 2
    /\ is_oauth2(all_credentials[1])
    /\ all_credentials[1].status = "authenticated"
    /\ all_credentials[1].email = BobEmail
    /\ is_success(results[2])
    /\ results[2].inbox_count = 450

\* a record that is structurally well-formed: address and secret not empty for
\* an app password record, the required fields present for an OAuth2 record
WellFormedRecord(c) ==
    IF is_app_password(c)
    THEN c.email # NoEmail /\ c.auth_data.value # <<>>
    ELSE RequiredFields \subseteq c.auth_data.fields

\* C17: every record process_credentials passes to authenticate_and_count is
\* structurally well-formed; malformed input never becomes a record
C17_OnlyWellFormedValidated ==
    (mode = "ui" /\ att.ended \in {"running", "returned"}) =>
        WellFormedRecord(all_credentials[att.idx])

\* C18: a batch with no well-formed entry (empty, or every entry invalid) ends
\* with one batch-level message and no outcome records
C18_InvalidBatchIsBatchLevel ==
    (mode = "ui" /\ pc = "done" /\ NumWellFormed = 0) =>
        /\ returned.kind \in {"no_valid", "failed"}
        /\ returned.results = <<>>
        /\ results = <<>>

\* C19: an app password record goes only to the app password authenticator
\* and an OAuth2 record only to the OAuth2 authenticator; a record of any
\* other kind gets at once a failure record "Unsupported authentication type",
\* no connection having been opened
C19_DispatchByKind ==
    att.ended # "none" =>
        /\ is_app_password(AttCredential) =>
              /\ att.exchanges = 0 /\ att.lookups = 0 /\ att.refreshes = 0
              /\ pc \notin {"oauth_flow", "oauth_exchange", "oauth_email", "oauth_refresh",
                            "oauth_connect", "oauth_xoauth2"}
        /\ is_oauth2(AttCredential) => pc \notin {"app_connect", "app_login"}
        /\ (~is_app_password(AttCredential) /\ ~is_oauth2(AttCredential)) =>
              /\ Returned
              /\ is_failed(AttResult)
              /\ AttResult.error_message = "Unsupported authentication type"
              /\ NetworkCalls = 0

\* the attempt ended because credentials.refresh raised
RefreshFailed == att.refreshes = 1 /\ att.session = "fail" /\ att.connects = 0

\* the error messages an attempt gets when opening the session fails
\* (imaplib.IMAP4_SSL or authenticate('XOAUTH2') raised)
SessionOpenFailedMessages ==
    {"IMAP OAuth2 connection failed: " \o e : e \in {"timed out"} \cup (Xoauth2Outcomes \ {"ok"})}

\* C20: an expired token is refreshed before the session is opened with it,
\* and a failed refresh gives a failure record that can be told from the
\* record of a failed session open
C20_RefreshFailureDistinct ==
    /\ pc = "oauth_refresh" => (att.connects = 0 /\ att.logins = 0)
    /\ (Returned /\ RefreshFailed) =>
          /\ is_failed(AttResult)
          /\ AttResult.error_message \notin SessionOpenFailedMessages

\* C21: once OAuth2Authenticator.authenticate has returned, the record's status
\* and email reflect the outcome: "authenticated" with the address the lookup
\* gave when it succeeded, "failed" when it failed
C21_RecordReflectsOutcome ==
    (att.ended # "none" /\ is_oauth2(AttCredential)) =>
        /\ att.auth = "ok" =>
              /\ AttCredential.status = "authenticated"
              /\ AttCredential.email = get_user_email(att.lookup)
        /\ att.auth = "fail" => AttCredential.status = "failed"

\* C22: every select issued while counting messages is read-only, in every
\* variant of the checker
C22_SelectsReadOnly ==
    \A k \in 1..Len(att.selects) : att.selects[k].readonly

\* the non-blank lines of a text
NonBlankLines(text) == SelectSeq(text, LAMBDA line : Strip(line) # <<>>)

\* where the first ':' of a line is (the line has one)
FirstColon(line) ==
    CHOOSE k \in 1..Len(line) : line[k] = ":" /\ \A j \in 1..(k - 1) : line[j] # ":"

\* what stands before and after the first ':' of a line, trimmed
EmailPart(line) == Strip(SubSeq(line, 1, FirstColon(line) - 1))
PasswordPart(line) == Strip(SubSeq(line, FirstColon(line) + 1, Len(line)))

\* a line of the form email:password, both parts non-empty after trimming and
\* an '@' in the email
EmailPasswordForm(line) ==
    /\ \E k \in 1..Len(line) : line[k] = ":"
    /\ EmailPart(line) # <<>>
    /\ PasswordPart(line) # <<>>
    /\ \E k \in 1..Len(EmailPart(line)) : EmailPart(line)[k] = "@"

\* C23: when every non-blank line of the text has the form email:password,
\* parse_app_password_text returns one app password record per non-blank line,
\* in line order, the email being what stands before the first ':' and the
\* password everything after it (both trimmed); when some line has not that
\* form it raises ValueError and gives no record
C23_ParseAppPasswordText ==
    (mode = "parse" /\ pc = "done") =>
        LET lines == NonBlankLines(app_password_text)
        IN  IF \A k \in 1..Len(lines) : EmailPasswordForm(lines[k])
            THEN /\ returned.kind = "returned"
                 /\ Len(all_credentials) = Len(lines)
                 /\ \A k \in 1..Len(lines) :
                       all_credentials[k] =
                           from_app_password(EmailPart(lines[k]), PasswordPart(lines[k]))
            ELSE /\ returned.kind = "raised"
                 /\ all_credentials = <<>>

C23_Witness ==
    /\ mode = "parse"
    /\ pc = "done"
    /\ app_password_text = <<LineShort, LineBlank, LineTwoColons>>
    /\ Len(all_credentials) = 2
    /\ all_credentials[1].email = AliceEmail
    /\ all_credentials[1].auth_data.value = ShortSecret
    /\ all_credentials[2].auth_data.value = <<"ab", ":", "cd">>

\* the three classes of error of the app password authenticator, as sets of
\* its error messages
InvalidSecretClass == {"Invalid credentials. Check email and app password."}
AuthenticationFailedClass ==
    {"Authentication failed. Verify app password."}
        \cup {"IMAP authentication error: " \o e : e \in ImapErrors}
ConnectionErrorClass == {"Connection error: " \o e : e \in {"timed out", "connection reset"}}

ErrorClassesOf(error) ==
    {c \in {InvalidSecretClass, AuthenticationFailedClass, ConnectionErrorClass} : error \in c}

\* C24: AppPasswordAuthenticator.authenticate hands back a session exactly
\* when it reports success, and then with no error; when it fails it hands
\* back no session (none is probed) and an error of exactly one of the classes
\* InvalidSecret, AuthenticationFailed and ConnectionError
C24_SecretAuthenticatorResult ==
    (att.ended # "none" /\ is_app_password(AttCredential)) =>
        /\ att.auth = "ok" <=> att.session = "ok"
        /\ (Returned /\ att.auth = "ok") =>
              /\ is_success(AttResult)
              /\ AttResult.error_message = None
        /\ att.auth = "fail" =>
              /\ Returned
              /\ att.selects = <<>>
              /\ att.logouts = 0
              /\ is_failed(AttResult)
              /\ Cardinality(ErrorClassesOf(AttResult.error_message)) = 1
        /\ (att.auth = "fail" /\ att.logins = 0) =>
              AttResult.error_message \in ConnectionErrorClass \cup AuthenticationFailedClass

C24_Witness ==
    /\ Returned
    /\ is_app_password(AttCredential)
    /\ att.auth = "fail"
    /\ att.logins = 1
    /\ AttResult.error_message \in InvalidSecretClass

\* an attempt for an OAuth2 record, and where it stands
TokenAttempt == att.ended # "none" /\ is_oauth2(AttCredential)

TokenPhase ==
    IF att.auth = "fail" \/ att.session = "fail" THEN "FAILED"
    ELSE IF att.session = "ok" THEN "SESSION_OPEN"
    ELSE IF att.auth = "ok" THEN "ADDRESS_DISCOVERED"
    ELSE IF pc = "oauth_exchange" \/ att.exchanges > 0 THEN "EXCHANGING"
    ELSE "NOT_STARTED"

TokenMoves ==
    {<<"NOT_STARTED", "EXCHANGING">>, <<"EXCHANGING", "ADDRESS_DISCOVERED">>,
     <<"ADDRESS_DISCOVERED", "SESSION_OPEN">>, <<"NOT_STARTED", "FAILED">>,
     <<"EXCHANGING", "FAILED">>, <<"ADDRESS_DISCOVERED", "FAILED">>}

\* the session is being opened or has been tried
SessionOpenAttempted ==
    pc \in {"oauth_refresh", "oauth_connect", "oauth_xoauth2"} \/ att.connects > 0 \/ att.refreshes > 0

\* C25: an attempt for an OAuth2 record moves only along NOT_STARTED ->
\* EXCHANGING -> ADDRESS_DISCOVERED -> SESSION_OPEN, or to FAILED; the session
\* is opened only after the exchange succeeded and the address lookup is over,
\* with the address the lookup gave; a failed attempt takes no further step
C25_TokenStateMachine ==
    /\ [](TokenAttempt /\ SessionOpenAttempted =>
            /\ att.exchanges = 1
            /\ att.lookups = 1
            /\ att.auth = "ok"
            /\ AttCredential.email = get_user_email(att.lookup))
    /\ [][(TokenAttempt /\ att'.idx = att.idx) =>
            /\ TokenPhase' = TokenPhase \/ <<TokenPhase, TokenPhase'>> \in TokenMoves
            /\ TokenPhase = "FAILED" => (att' = att /\ pc' \in {"loop", "done"})]_vars

C25_Witness ==
    /\ TokenAttempt
    /\ Returned
    /\ TokenPhase = "FAILED"
    /\ att.exchanges = 1
    /\ att.lookup = "raise"
    /\ att.logins = 1
    /\ AttCredential.email = UnknownGmail

\* C26: an app password record made by the parser has, in every state up to
\* the end of its validation, a non-empty email with an '@'; the email of an
\* OAuth2 record is empty only as long as the address lookup has not been
\* completed, and is non-empty after every successful authenticate
C26_AddressInvariant ==
    mode = "ui" =>
        /\ \A k \in 1..Len(all_credentials) :
              LET c == all_credentials[k]
              IN  /\ is_app_password(c) => (c.email # NoEmail /\ Contains(c.email, "@"))
                  /\ (is_oauth2(c) /\ c.status = "authenticated") => c.email # NoEmail
        /\ (att.ended # "none" /\ is_oauth2(AttCredential) /\ (att.lookups > 0 \/ att.auth = "ok")) =>
              /\ AttCredential.email # NoEmail
              /\ AttCredential.status = "authenticated"

C26_Witness ==
    /\ mode = "ui"
    /\ pc = "done"
    /\ Len(all_credentials) = 2
    /\ is_app_password(all_credentials[1])
    /\ all_credentials[1].email = AliceEmail
    /\ is_oauth2(all_credentials[2])
    /\ all_credentials[2].status = "authenticated"
    /\ all_credentials[2].email = UnknownGmail
    /\ att.lookup = "empty"

\* C27: in one batch every record is validated exactly once, and an attempt
\* makes at most one connection attempt and at most one login attempt: nothing
\* is retried
C27_ValidatedOnceNoRetry ==
    /\ att.connects <= 1
    /\ att.logins <= 1
    /\ att.idx > 0 => Len(results) \in {att.idx - 1, att.idx}
    /\ (mode = "ui" /\ pc = "done" /\ all_credentials # <<>>) =>
          /\ att.idx = Len(all_credentials)
          /\ att.ended = "returned"
          /\ Len(results) = Len(all_credentials)

\* C28: when authenticate_and_count has returned a failure record for a
\* record, that record's status is not "authenticated"
C28_StatusAgreesWithOutcome ==
    (Returned /\ is_failed(AttResult)) => AttCredential.status # "authenticated"

\* C29: the service get_gmail_service hands out is built from the credentials
\* obtained last: after a new authentication, a service built from earlier
\* credentials is not handed out any more
C29_ServiceFromLatestCredentials ==
    colab_calls.service # NoService => colab_calls.service = colab_credentials

\* C30: when two calls of process_credentials overlap, the export files a
\* call has returned hold that call's own outcome records, the CSV file its
\* rows and the summary file its statistics and lines
C30_ExportsHoldOwnRecords ==
    \A id \in RunIds :
        (runs # NoRuns /\ runs[id].pc = "returned") =>
            /\ runs[id].csv_path # None => files[runs[id].csv_path] = CsvContent(runs[id].results)
            /\ runs[id].summary_path # None =>
                   files[runs[id].summary_path] = SummaryContent(runs[id].results)

====
